---- MODULE Spec2Model ----
(***************************************************************************)
(* A model of the DOT renderer of dot2.rs.                                 *)
(*                                                                         *)
(* Text is a sequence of fragments.  A string that comes from the client   *)
(* (an identifier, the content of a label) is a sequence of one-character  *)
(* strings; every literal piece of a format string of the renderer is one  *)
(* fragment.  Concatenation of text is \o.                                 *)
(*                                                                         *)
(* The sink w is the sequence of the write calls it has received, each     *)
(* with the place of the renderer that issued it and the text that         *)
(* reached the sink.                                                       *)
(***************************************************************************)
EXTENDS Integers, Sequences, FiniteSets, TLC

VARIABLES
    g,        \* the client graph: what GraphWalk and Labeller answer from
    options,  \* the option list handed to render_opts
    pc,       \* the place render_opts has reached
    i,        \* index of the subgraph, node or edge being rendered
    j,        \* index of the member node inside the current subgraph
    w,        \* the sink: the write calls received so far
    result,   \* "running", or the value render_opts returned
    idIn,     \* the string handed to Id::new
    idOut,    \* what Id::new returned for idIn (Pending before the call)
    lt,       \* the Text value the methods of Text are called on
    suffix,   \* the Text value handed to suffix_line
    textOut,  \* what the methods of Text returned for lt and suffix
    arrows,   \* the field arrows of the Arrow whose methods are called
    arrowOut, \* what the methods of Arrow returned for arrows
    made      \* the constructor of Shape that made the shape of arrows, if any

vars == <<g, options, pc, i, j, w, result, idIn, idOut,
          lt, suffix, textOut, arrows, arrowOut, made>>

----------------------------------------------------------------------------
(* Bounds of the model.                                                    *)

MaxNodes == 2
MaxEdges == 2
MaxSubgraphs == 2
MaxIdLen == 3
MaxTextLen == 2
MaxSuffixLen == 1
MaxArrowLen == 2

----------------------------------------------------------------------------
(* Result and Option values.                                               *)

Ok(x) == [ok |-> TRUE, val |-> x, err |-> "none"]
Err(e) == [ok |-> FALSE, val |-> <<>>, err |-> e]

Some(x) == [some |-> TRUE, val |-> x]
None == [some |-> FALSE]

\* The fragment for a string literal s; pushing the empty string adds nothing.
Tok(s) == IF s = "" THEN <<>> ELSE <<s>>

RECURSIVE Concat(_)
\* Concatenation of a sequence of texts.
Concat(ts) == IF ts = <<>> THEN <<>> ELSE Head(ts) \o Concat(Tail(ts))

RECURSIVE Join(_, _)
\* slice::join: the texts of ts separated by sep.
Join(ts, sep) ==
    IF ts = <<>> THEN <<>>
    ELSE IF Len(ts) = 1 THEN ts[1]
    ELSE ts[1] \o sep \o Join(Tail(ts), sep)

----------------------------------------------------------------------------
(* Characters.                                                             *)

AsciiAlphabetic ==
    {"a","b","c","d","e","f","g","h","i","j","k","l","m",
     "n","o","p","q","r","s","t","u","v","w","x","y","z",
     "A","B","C","D","E","F","G","H","I","J","K","L","M",
     "N","O","P","Q","R","S","T","U","V","W","X","Y","Z"}

AsciiDigit == {"0","1","2","3","4","5","6","7","8","9"}

is_ascii_alphabetic(c) == c \in AsciiAlphabetic

is_ascii_alphanumeric(c) == c \in AsciiAlphabetic \cup AsciiDigit

----------------------------------------------------------------------------
(* Id                                                                      *)

IdNewNoFirstCheck(name) ==
    IF \A k \in 1..Len(name) : is_ascii_alphanumeric(name[k]) \/ name[k] = "_"
    THEN Ok(name)
    ELSE Err("InvalidId")

\* Id::new: Ok(Id { name }) or Err(InvalidId).
IdNew(name) ==
    IF ~(Len(name) > 0 /\ (is_ascii_alphabetic(name[1]) \/ name[1] = "_"))
    THEN Err("InvalidId")
    ELSE IF ~(\A k \in 1..Len(name) :
                 is_ascii_alphanumeric(name[k]) \/ name[k] = "_")
    THEN Err("InvalidId")
    ELSE Ok(name)

\* Display for Id, and Id::as_slice: the name.
IdDisplay(id) == id

----------------------------------------------------------------------------
(* Kind, Style, Fill, Side                                                 *)

Kinds == {"Digraph", "Graph"}

keyword(kind) == IF kind = "Digraph" THEN "digraph" ELSE "graph"

\* edgeop that answers the operator of a directed graph for both kinds.
EdgeopAlwaysDirected(kind) == "->"

edgeop(kind) == IF kind = "Digraph" THEN "->" ELSE "--"

Styles == {"None", "Solid", "Dashed", "Dotted", "Bold", "Rounded",
           "Diagonals", "Filled", "Striped", "Wedged"}

StyleAsSlice(style) ==
    CASE style = "None" -> ""
      [] style = "Solid" -> "solid"
      [] style = "Dashed" -> "dashed"
      [] style = "Dotted" -> "dotted"
      [] style = "Bold" -> "bold"
      [] style = "Rounded" -> "rounded"
      [] style = "Diagonals" -> "diagonals"
      [] style = "Filled" -> "filled"
      [] style = "Striped" -> "striped"
      [] style = "Wedged" -> "wedged"

FillAsSlice(fill) == IF fill = "Open" THEN "o" ELSE ""

SideAsSlice(side) ==
    CASE side = "Left" -> "l"
      [] side = "Right" -> "r"
      [] side = "Both" -> ""

----------------------------------------------------------------------------
(* Arrow shapes and arrows                                                 *)

\* A Shape value; fill and side are read only where the variant has them.
Shape(name, fill, side) == [shape |-> name, fill |-> fill, side |-> side]

FillSideShapes == {"Box", "ICurve", "Diamond", "Inv", "Normal"}
SideShapes == {"Crow", "Curve", "Tee", "Vee"}

ShapeName(sh) ==
    CASE sh.shape = "NoArrow" -> "none"
      [] sh.shape = "Normal" -> "normal"
      [] sh.shape = "Box" -> "box"
      [] sh.shape = "Crow" -> "crow"
      [] sh.shape = "Curve" -> "curve"
      [] sh.shape = "ICurve" -> "icurve"
      [] sh.shape = "Diamond" -> "diamond"
      [] sh.shape = "Dot" -> "dot"
      [] sh.shape = "Inv" -> "inv"
      [] sh.shape = "Tee" -> "tee"
      [] sh.shape = "Vee" -> "vee"

\* ShapeToDotString that pushes the side modifier before the fill modifier.
ShapeToDotStringSideFirst(sh) ==
    LET sidePart == IF sh.side \in {"Left", "Right"}
                    THEN Tok(SideAsSlice(sh.side)) ELSE <<>>
        mods == IF sh.shape \in FillSideShapes
                    THEN sidePart \o Tok(FillAsSlice(sh.fill))
                ELSE IF sh.shape = "Dot" THEN Tok(FillAsSlice(sh.fill))
                ELSE IF sh.shape \in SideShapes THEN sidePart
                ELSE <<>>
    IN  mods \o Tok(ShapeName(sh))

\* Shape::to_dot_string
ShapeToDotString(sh) ==
    LET sidePart == IF sh.side \in {"Left", "Right"}
                    THEN Tok(SideAsSlice(sh.side)) ELSE <<>>
        mods == IF sh.shape \in FillSideShapes
                    THEN Tok(FillAsSlice(sh.fill)) \o sidePart
                ELSE IF sh.shape = "Dot" THEN Tok(FillAsSlice(sh.fill))
                ELSE IF sh.shape \in SideShapes THEN sidePart
                ELSE <<>>
    IN  mods \o Tok(ShapeName(sh))

\* The argument-less constructors of Shape.
Constructors == {"none", "normal", "boxed", "crow", "curve", "icurve",
                 "diamond", "dot", "inv", "tee", "vee"}

\* Shape::none(), Shape::normal(), ..., Shape::vee()
ShapeNew(c) ==
    CASE c = "none" -> Shape("NoArrow", "Filled", "Both")
      [] c = "normal" -> Shape("Normal", "Filled", "Both")
      [] c = "boxed" -> Shape("Box", "Filled", "Both")
      [] c = "crow" -> Shape("Crow", "Filled", "Both")
      [] c = "curve" -> Shape("Curve", "Filled", "Both")
      [] c = "icurve" -> Shape("ICurve", "Filled", "Both")
      [] c = "diamond" -> Shape("Diamond", "Filled", "Both")
      [] c = "dot" -> Shape("Diamond", "Filled", "Both")
      [] c = "inv" -> Shape("Inv", "Filled", "Both")
      [] c = "tee" -> Shape("Tee", "Filled", "Both")
      [] c = "vee" -> Shape("Vee", "Filled", "Both")

ShapeCrow == Shape("Crow", "Filled", "Both")
ShapeTee == Shape("Tee", "Filled", "Both")
ShapeNone == Shape("NoArrow", "Filled", "Both")

\* An Arrow is its sequence of shapes (the field arrows).
ArrowDefault == <<>>
ArrowNone == <<ShapeNone>>
ArrowFromArrow(sh) == <<sh>>

\* ArrowIsDefault that takes an arrow for default when it draws nothing.
ArrowIsDefaultOrNone(a) == a = <<>> \/ a = <<ShapeNone>>

\* Arrow::is_default
ArrowIsDefault(a) == a = <<>>

RECURSIVE ArrowToDotString(_)
ArrowToDotString(a) ==
    IF a = <<>> THEN <<>>
    ELSE ShapeToDotString(Head(a)) \o ArrowToDotString(Tail(a))

----------------------------------------------------------------------------
(* Text                                                                    *)

LabelStr(s) == [variant |-> "LabelStr", s |-> s]
EscStr(s) == [variant |-> "EscStr", s |-> s]
HtmlStr(s) == [variant |-> "HtmlStr", s |-> s]

\* char::escape_default on the characters of the model's alphabet.
CharEscapeDefault(c) ==
    CASE c = "\\" -> <<"\\", "\\">>
      [] c = "\"" -> <<"\\", "\"">>
      [] c = "'" -> <<"\\", "'">>
      [] c = "\n" -> <<"\\", "n">>
      [] c = "\t" -> <<"\\", "t">>
      [] c = "\r" -> <<"\\", "r">>
      [] OTHER -> <<c>>

RECURSIVE StrEscapeDefault(_)
\* str::escape_default
StrEscapeDefault(s) ==
    IF s = <<>> THEN <<>>
    ELSE CharEscapeDefault(Head(s)) \o StrEscapeDefault(Tail(s))

\* escape_char that escapes the backslash like any other character.
EscapeCharDoublingBackslash(c) == CharEscapeDefault(c)

\* Text::escape_char
escape_char(c) == IF c = "\\" THEN <<c>> ELSE CharEscapeDefault(c)

RECURSIVE escape_str(_)
\* Text::escape_str
escape_str(s) ==
    IF s = <<>> THEN <<>> ELSE escape_char(Head(s)) \o escape_str(Tail(s))

\* TextToDotString that renders a LabelStr the way it renders an EscStr.
TextToDotStringLabelAsEscStr(t) ==
    CASE t.variant = "LabelStr" -> <<"\"">> \o escape_str(t.s) \o <<"\"">>
      [] t.variant = "EscStr" -> <<"\"">> \o escape_str(t.s) \o <<"\"">>
      [] t.variant = "HtmlStr" -> <<"<">> \o t.s \o <<">">>

\* Display for Text (to_dot_string)
TextToDotString(t) ==
    CASE t.variant = "LabelStr" -> <<"\"">> \o StrEscapeDefault(t.s) \o <<"\"">>
      [] t.variant = "EscStr" -> <<"\"">> \o escape_str(t.s) \o <<"\"">>
      [] t.variant = "HtmlStr" -> <<"<">> \o t.s \o <<">">>

\* s.contains('\\')
ContainsBackslash(s) == \E k \in 1..Len(s) : s[k] = "\\"

\* pre_escaped_content that escapes every LabelStr, with or without backslash.
PreEscapedContentAlwaysEscapes(t) ==
    CASE t.variant = "EscStr" -> t.s
      [] t.variant = "LabelStr" -> StrEscapeDefault(t.s)
      [] t.variant = "HtmlStr" -> t.s

\* Text::pre_escaped_content
pre_escaped_content(t) ==
    CASE t.variant = "EscStr" -> t.s
      [] t.variant = "LabelStr" ->
            IF ContainsBackslash(t.s) THEN StrEscapeDefault(t.s) ELSE t.s
      [] t.variant = "HtmlStr" -> t.s

\* Text::suffix_line: r"\n\n" is a backslash, n, a backslash, n.
suffix_line(self, other) ==
    EscStr(pre_escaped_content(self) \o <<"\\", "n", "\\", "n">>
              \o pre_escaped_content(other))

----------------------------------------------------------------------------
(* render::Option                                                          *)

Opt(name) == [opt |-> name, arg |-> <<>>]
Fontname(f) == [opt |-> "Fontname", arg |-> f]

NoEdgeLabels == Opt("NoEdgeLabels")
NoNodeLabels == Opt("NoNodeLabels")
NoEdgeStyles == Opt("NoEdgeStyles")
NoEdgeColors == Opt("NoEdgeColors")
NoNodeStyles == Opt("NoNodeStyles")
NoNodeColors == Opt("NoNodeColors")
NoArrows == Opt("NoArrows")
DarkTheme == Opt("DarkTheme")

\* Contains that looks at the first option of the list only.
ContainsFirstOnly(opts, o) == opts # <<>> /\ opts[1] = o

\* options.contains(&o)
Contains(opts, o) == \E k \in 1..Len(opts) : opts[k] = o

RECURSIVE FindFontname(_)
\* options.iter().find_map(..): the first Fontname of the list, if any.
FindFontname(opts) ==
    IF opts = <<>> THEN None
    ELSE IF Head(opts).opt = "Fontname" THEN Some(Head(opts).arg)
    ELSE FindFontname(Tail(opts))

----------------------------------------------------------------------------
(* GraphWalk and Labeller, as the client graph g answers them.             *)

nodes(gr) == [n \in 1..Len(gr.nodes) |-> n]
edges(gr) == [e \in 1..Len(gr.edges) |-> e]
subgraphs(gr) == [s \in 1..Len(gr.subgraphs) |-> s]
source(gr, e) == gr.edges[e].from
target(gr, e) == gr.edges[e].to
subgraph_nodes(gr, s) == gr.subgraphs[s].nodes

kind(gr) == gr.kind
graph_id(gr) == IdNew(gr.name)
node_id(gr, n) == IdNew(gr.nodes[n].name)

\* node_label whose default is the empty label, the default of edge_label.
NodeLabelEmptyDefault(gr, n) ==
    IF gr.nodes[n].label.some THEN gr.nodes[n].label.val
    ELSE LabelStr(<<>>)

\* The label the client gives, or by default the identifier as a LabelStr.
node_label(gr, n) ==
    IF gr.nodes[n].label.some THEN gr.nodes[n].label.val
    ELSE LabelStr(node_id(gr, n).val)

node_style(gr, n) == gr.nodes[n].style
node_color(gr, n) == gr.nodes[n].color
node_shape(gr, n) == gr.nodes[n].shape

edge_label(gr, e) == gr.edges[e].label
edge_style(gr, e) == gr.edges[e].style
edge_color(gr, e) == gr.edges[e].color
edge_start_arrow(gr, e) == gr.edges[e].start_arrow
edge_end_arrow(gr, e) == gr.edges[e].end_arrow

\* Option<Id>: a client that builds the identifier with Id::new(..).ok()
\* answers None for a name that Id::new rejects.
subgraph_id(gr, s) ==
    IF gr.subgraphs[s].name.some /\ IdNew(gr.subgraphs[s].name.val).ok
    THEN Some(IdNew(gr.subgraphs[s].name.val).val)
    ELSE None

subgraph_label(gr, s) == gr.subgraphs[s].label
subgraph_style(gr, s) == gr.subgraphs[s].style
subgraph_shape(gr, s) == gr.subgraphs[s].shape
subgraph_color(gr, s) == gr.subgraphs[s].color

----------------------------------------------------------------------------
(* The texts render_opts writes.                                           *)

\* HeaderText without the brace that opens the graph.
HeaderTextNoBrace(gr) ==
    <<keyword(kind(gr)), " ">> \o IdDisplay(graph_id(gr).val) \o <<"\n">>

\* writeln!(w, "{} {} {{", keyword, graph id)
HeaderText(gr) ==
    <<keyword(kind(gr)), " ">> \o IdDisplay(graph_id(gr).val) \o <<" {", "\n">>

\* writeln!(w, "}}")
FooterText == <<"}", "\n">>

\* SubgraphText whose label line is removed by NoEdgeLabels as well.
SubgraphTextByEdgeLabels(gr, s, opts) ==
    LET id == IF subgraph_id(gr, s).some
              THEN IdDisplay(subgraph_id(gr, s).val) \o <<" ">> ELSE <<>>
        label == IF ~Contains(opts, NoNodeLabels) /\ ~Contains(opts, NoEdgeLabels)
                 THEN <<"label=">> \o TextToDotString(subgraph_label(gr, s))
                          \o <<";\n">>
                 ELSE <<>>
        style == IF ~Contains(opts, NoNodeStyles) /\ subgraph_style(gr, s) # "None"
                 THEN <<"style=\"">> \o Tok(StyleAsSlice(subgraph_style(gr, s)))
                          \o <<"\";\n">>
                 ELSE <<>>
        shape == IF subgraph_shape(gr, s).some
                 THEN <<"shape=\"">> \o TextToDotString(subgraph_shape(gr, s).val)
                          \o <<";\n">>
                 ELSE <<>>
    IN  <<"subgraph ">> \o id \o <<"{\n">> \o label \o style \o shape \o <<"\n">>

\* The text render_subgraphs builds for subgraph s, and writeln!(w, "{}", text).
SubgraphText(gr, s, opts) ==
    LET id == IF subgraph_id(gr, s).some
              THEN IdDisplay(subgraph_id(gr, s).val) \o <<" ">> ELSE <<>>
        label == IF ~Contains(opts, NoNodeLabels)
                 THEN <<"label=">> \o TextToDotString(subgraph_label(gr, s))
                          \o <<";\n">>
                 ELSE <<>>
        style == IF ~Contains(opts, NoNodeStyles) /\ subgraph_style(gr, s) # "None"
                 THEN <<"style=\"">> \o Tok(StyleAsSlice(subgraph_style(gr, s)))
                          \o <<"\";\n">>
                 ELSE <<>>
        shape == IF subgraph_shape(gr, s).some
                 THEN <<"shape=\"">> \o TextToDotString(subgraph_shape(gr, s).val)
                          \o <<";\n">>
                 ELSE <<>>
    IN  <<"subgraph ">> \o id \o <<"{\n">> \o label \o style \o shape \o <<"\n">>

\* SubgraphNodeText that repeats the label of the node inside the block.
SubgraphNodeTextLabelled(gr, n) ==
    IdDisplay(node_id(gr, n).val)
    \o <<"[label=">> \o TextToDotString(node_label(gr, n)) \o <<"]">>
    \o <<";", "\n">>

\* writeln!(w, "{};", node id) for a member node of a subgraph
SubgraphNodeText(gr, n) == IdDisplay(node_id(gr, n).val) \o <<";", "\n">>

\* writeln!(w, "\n}}\n")
SubgraphCloseText == <<"\n", "}", "\n", "\n">>

\* graph_attrs of render_nodes: a list of attributes
GraphAttrs(opts) ==
    (IF FindFontname(opts).some
     THEN << <<"fontname=\"">> \o FindFontname(opts).val \o <<"\"">> >>
     ELSE <<>>)
    \o (IF Contains(opts, DarkTheme)
        THEN << <<"bgcolor=\"black\"">>, <<"fontcolor=\"white\"">> >>
        ELSE <<>>)

\* content_attrs with the font pushed after the colors of the dark theme.
ContentAttrsFontLast(opts) ==
    (IF Contains(opts, DarkTheme)
     THEN << <<"color=\"white\"">>, <<"fontcolor=\"white\"">> >>
     ELSE <<>>)
    \o (IF FindFontname(opts).some
        THEN << <<"fontname=\"">> \o FindFontname(opts).val \o <<"\"">> >>
        ELSE <<>>)

\* content_attrs of render_nodes
ContentAttrs(opts) ==
    (IF FindFontname(opts).some
     THEN << <<"fontname=\"">> \o FindFontname(opts).val \o <<"\"">> >>
     ELSE <<>>)
    \o (IF Contains(opts, DarkTheme)
        THEN << <<"color=\"white\"">>, <<"fontcolor=\"white\"">> >>
        ELSE <<>>)

\* Whether render_nodes writes the three global attribute lines.
HasGlobalAttrs(opts) == ~(GraphAttrs(opts) = <<>> /\ ContentAttrs(opts) = <<>>)

GraphAttrsText(opts) ==
    <<"    graph[">> \o Join(GraphAttrs(opts), <<" ">>) \o <<"];", "\n">>
NodeAttrsText(opts) ==
    <<"    node[">> \o Join(ContentAttrs(opts), <<" ">>) \o <<"];", "\n">>
EdgeAttrsText(opts) ==
    <<"    edge[">> \o Join(ContentAttrs(opts), <<" ">>) \o <<"];", "\n">>

\* write!(w, "    ") before a node or an edge
IndentText == <<"    ">>

\* NodeText with the color fragment written before the style fragment.
NodeTextColorBeforeStyle(gr, n, opts) ==
    LET label == IF ~Contains(opts, NoNodeLabels)
                 THEN <<"[label=">> \o TextToDotString(node_label(gr, n)) \o <<"]">>
                 ELSE <<>>
        style == IF ~Contains(opts, NoNodeStyles) /\ node_style(gr, n) # "None"
                 THEN <<"[style=\"">> \o Tok(StyleAsSlice(node_style(gr, n)))
                          \o <<"\"]">>
                 ELSE <<>>
        color == IF ~Contains(opts, NoNodeColors) /\ node_color(gr, n).some
                 THEN <<"[color=">> \o TextToDotString(node_color(gr, n).val)
                          \o <<"]">>
                 ELSE <<>>
        shape == IF node_shape(gr, n).some
                 THEN <<"[shape=">> \o TextToDotString(node_shape(gr, n).val)
                          \o <<"]">>
                 ELSE <<>>
    IN  IdDisplay(node_id(gr, n).val) \o label \o color \o style \o shape
            \o <<";", "\n">>

\* NodeText without the test that the style is not Style::None.
NodeTextStyleNone(gr, n, opts) ==
    LET label == IF ~Contains(opts, NoNodeLabels)
                 THEN <<"[label=">> \o TextToDotString(node_label(gr, n)) \o <<"]">>
                 ELSE <<>>
        style == IF ~Contains(opts, NoNodeStyles)
                 THEN <<"[style=\"">> \o Tok(StyleAsSlice(node_style(gr, n)))
                          \o <<"\"]">>
                 ELSE <<>>
        color == IF ~Contains(opts, NoNodeColors) /\ node_color(gr, n).some
                 THEN <<"[color=">> \o TextToDotString(node_color(gr, n).val)
                          \o <<"]">>
                 ELSE <<>>
        shape == IF node_shape(gr, n).some
                 THEN <<"[shape=">> \o TextToDotString(node_shape(gr, n).val)
                          \o <<"]">>
                 ELSE <<>>
    IN  IdDisplay(node_id(gr, n).val) \o label \o style \o color \o shape
            \o <<";", "\n">>

\* The buffer text that render_nodes fills for node n and writes with write_all.
NodeText(gr, n, opts) ==
    LET label == IF ~Contains(opts, NoNodeLabels)
                 THEN <<"[label=">> \o TextToDotString(node_label(gr, n)) \o <<"]">>
                 ELSE <<>>
        style == IF ~Contains(opts, NoNodeStyles) /\ node_style(gr, n) # "None"
                 THEN <<"[style=\"">> \o Tok(StyleAsSlice(node_style(gr, n)))
                          \o <<"\"]">>
                 ELSE <<>>
        color == IF ~Contains(opts, NoNodeColors) /\ node_color(gr, n).some
                 THEN <<"[color=">> \o TextToDotString(node_color(gr, n).val)
                          \o <<"]">>
                 ELSE <<>>
        shape == IF node_shape(gr, n).some
                 THEN <<"[shape=">> \o TextToDotString(node_shape(gr, n).val)
                          \o <<"]">>
                 ELSE <<>>
    IN  IdDisplay(node_id(gr, n).val) \o label \o style \o color \o shape
            \o <<";", "\n">>

\* ArrowText that writes arrowhead whatever the end arrow is.
ArrowTextAlwaysHead(gr, e) ==
    <<"[">>
    \o <<"arrowhead=\"">> \o ArrowToDotString(edge_end_arrow(gr, e)) \o <<"\"">>
    \o (IF ~ArrowIsDefault(edge_start_arrow(gr, e))
        THEN <<" dir=\"both\" arrowtail=\"">>
                 \o ArrowToDotString(edge_start_arrow(gr, e)) \o <<"\"">>
        ELSE <<>>)
    \o <<"]">>

\* ArrowText that writes dir and arrowtail whatever the start arrow is.
ArrowTextAlwaysDir(gr, e) ==
    <<"[">>
    \o (IF ~ArrowIsDefault(edge_end_arrow(gr, e))
        THEN <<"arrowhead=\"">> \o ArrowToDotString(edge_end_arrow(gr, e))
                 \o <<"\"">>
        ELSE <<>>)
    \o <<" dir=\"both\" arrowtail=\"">>
    \o ArrowToDotString(edge_start_arrow(gr, e)) \o <<"\"">>
    \o <<"]">>

\* The bracket of the arrows of edge e, for arrows that are not both default.
ArrowText(gr, e) ==
    <<"[">>
    \o (IF ~ArrowIsDefault(edge_end_arrow(gr, e))
        THEN <<"arrowhead=\"">> \o ArrowToDotString(edge_end_arrow(gr, e))
                 \o <<"\"">>
        ELSE <<>>)
    \o (IF ~ArrowIsDefault(edge_start_arrow(gr, e))
        THEN <<" dir=\"both\" arrowtail=\"">>
                 \o ArrowToDotString(edge_start_arrow(gr, e)) \o <<"\"">>
        ELSE <<>>)
    \o <<"]">>

\* EdgeText that writes the arrows although NoArrows is set.
EdgeTextIgnoresNoArrows(gr, e, opts) ==
    LET label == IF ~Contains(opts, NoEdgeLabels)
                 THEN <<"[label=">> \o TextToDotString(edge_label(gr, e)) \o <<"]">>
                 ELSE <<>>
        style == IF ~Contains(opts, NoEdgeStyles) /\ edge_style(gr, e) # "None"
                 THEN <<"[style=\"">> \o Tok(StyleAsSlice(edge_style(gr, e)))
                          \o <<"\"]">>
                 ELSE <<>>
        color == IF ~Contains(opts, NoEdgeColors) /\ edge_color(gr, e).some
                 THEN <<"[color=">> \o TextToDotString(edge_color(gr, e).val)
                          \o <<"]">>
                 ELSE <<>>
        arrow == IF ~ArrowIsDefault(edge_start_arrow(gr, e))
                    \/ ~ArrowIsDefault(edge_end_arrow(gr, e))
                 THEN ArrowText(gr, e)
                 ELSE <<>>
    IN  IdDisplay(node_id(gr, source(gr, e)).val) \o <<" ", edgeop(kind(gr)), " ">>
            \o IdDisplay(node_id(gr, target(gr, e)).val)
            \o label \o style \o color \o arrow \o <<";", "\n">>

\* The buffer text that render_opts fills for edge e and writes with write_all.
EdgeText(gr, e, opts) ==
    LET label == IF ~Contains(opts, NoEdgeLabels)
                 THEN <<"[label=">> \o TextToDotString(edge_label(gr, e)) \o <<"]">>
                 ELSE <<>>
        style == IF ~Contains(opts, NoEdgeStyles) /\ edge_style(gr, e) # "None"
                 THEN <<"[style=\"">> \o Tok(StyleAsSlice(edge_style(gr, e)))
                          \o <<"\"]">>
                 ELSE <<>>
        color == IF ~Contains(opts, NoEdgeColors) /\ edge_color(gr, e).some
                 THEN <<"[color=">> \o TextToDotString(edge_color(gr, e).val)
                          \o <<"]">>
                 ELSE <<>>
        arrow == IF ~Contains(opts, NoArrows)
                    /\ (~ArrowIsDefault(edge_start_arrow(gr, e))
                        \/ ~ArrowIsDefault(edge_end_arrow(gr, e)))
                 THEN ArrowText(gr, e)
                 ELSE <<>>
    IN  IdDisplay(node_id(gr, source(gr, e)).val) \o <<" ", edgeop(kind(gr)), " ">>
            \o IdDisplay(node_id(gr, target(gr, e)).val)
            \o label \o style \o color \o arrow \o <<";", "\n">>

----------------------------------------------------------------------------
(* The client graphs and option lists the model renders.                   *)

Digits == <<"0", "1", "2", "3", "4", "5", "6", "7", "8", "9">>

\* The name the client derives from a node handle: N0, N1, ...
NodeName(n) == <<"N", Digits[n]>>
\* A name Id::new rejects.
BadNodeName(n) == <<"N", " ", Digits[n]>>

Red == Some(LabelStr(<<"r", "e", "d">>))
BoxShape == Some(LabelStr(<<"b", "o", "x">>))

Node(n, label, style, color, shape) ==
    [name |-> NodeName(n), label |-> label, style |-> style,
     color |-> color, shape |-> shape]

BareNode(n) == Node(n, None, "None", None, None)
FullNode(n) == Node(n, Some(LabelStr(<<"A", "\"">>)), "Dotted", Red, BoxShape)
BadNode(n) == [BareNode(n) EXCEPT !.name = BadNodeName(n)]

FirstNodes ==
    { Node(1, None, st, co, sh) :
        st \in {"None", "Dashed"}, co \in {None, Red}, sh \in {None, BoxShape} }
    \cup { FullNode(1),
           Node(1, Some(EscStr(<<"a", "\\", "l">>)), "None", None, None),
           BadNode(1) }

OtherNodes(n) == {BareNode(n), FullNode(n), BadNode(n)}

RECURSIVE NodeListsOfLen(_)
NodeListsOfLen(n) ==
    IF n = 0 THEN {<<>>}
    ELSE IF n = 1 THEN { <<x>> : x \in FirstNodes }
    ELSE { Append(l, x) : l \in NodeListsOfLen(n - 1), x \in OtherNodes(n) }

NodeLists == UNION { NodeListsOfLen(n) : n \in 1..MaxNodes }

Edge(from, to, label, style, color, start, end) ==
    [from |-> from, to |-> to, label |-> label, style |-> style,
     color |-> color, start_arrow |-> start, end_arrow |-> end]

ArrowTee == ArrowFromArrow(ShapeTee)
ArrowLCrow == ArrowFromArrow(Shape("Crow", "Filled", "Left"))

BareEdge(from, to) ==
    Edge(from, to, LabelStr(<<"E">>), "None", None, ArrowDefault, ArrowDefault)
FullEdge(from, to) ==
    Edge(from, to, LabelStr(<<"A", "-", "1">>), "Bold", Red, ArrowTee, ArrowLCrow)

FirstEdges ==
    { Edge(1, 2, LabelStr(<<"E">>), st, co, ArrowDefault, ArrowDefault) :
        st \in {"None", "Bold"}, co \in {None, Red} }
    \cup { Edge(1, 2, LabelStr(<<>>), "None", None, sa, ea) :
             sa \in {ArrowDefault, ArrowTee},
             ea \in {ArrowDefault, ArrowLCrow, ArrowNone} }
    \cup { FullEdge(1, 2) }

OtherEdges == {BareEdge(1, 1), FullEdge(2, 1)}

RECURSIVE EdgeListsOfLen(_)
EdgeListsOfLen(n) ==
    IF n = 0 THEN {<<>>}
    ELSE IF n = 1 THEN { <<x>> : x \in FirstEdges }
    ELSE { Append(l, x) : l \in EdgeListsOfLen(n - 1), x \in OtherEdges }

EdgeLists == UNION { EdgeListsOfLen(n) : n \in 1..MaxEdges }

Subgraph(name, label, style, shape, color, members) ==
    [name |-> name, label |-> label, style |-> style, shape |-> shape,
     color |-> color, nodes |-> members]

\* The name the client derives from a subgraph handle: cluster_0, ...
ClusterName(s) == <<"c", "_", Digits[s]>>
\* A name Id::new rejects.
BadClusterName(s) == <<"c", " ", Digits[s]>>

BareSubgraph(s, members) ==
    Subgraph(None, LabelStr(<<>>), "None", None, None, members)
FullSubgraph(s, members) ==
    Subgraph(Some(ClusterName(s)), LabelStr(<<"L">>), "Filled", BoxShape, Red,
             members)

FirstSubgraphs ==
    { [d EXCEPT !.name = nm, !.nodes = ms] :
        d \in { BareSubgraph(1, <<>>), FullSubgraph(1, <<>>),
                [BareSubgraph(1, <<>>) EXCEPT !.style = "Dashed"] },
        nm \in {None, Some(ClusterName(1)), Some(BadClusterName(1))},
        ms \in {<<>>, <<1, 2>>} }

OtherSubgraphs(s) == {BareSubgraph(s, <<1>>), FullSubgraph(s, <<2, 1>>)}

RECURSIVE SubgraphListsOfLen(_)
SubgraphListsOfLen(n) ==
    IF n = 0 THEN {<<>>}
    ELSE IF n = 1 THEN { <<x>> : x \in FirstSubgraphs }
    ELSE { Append(l, x) : l \in SubgraphListsOfLen(n - 1), x \in OtherSubgraphs(n) }

SubgraphLists == UNION { SubgraphListsOfLen(n) : n \in 1..MaxSubgraphs }

Graph(k, name, ns, es, ss) ==
    [kind |-> k, name |-> name, nodes |-> ns, edges |-> es, subgraphs |-> ss]

GraphName == <<"g">>
BadGraphName == <<"1", "g">>

RECURSIVE SubList(_, _)
\* The entries of list whose positions are in keep, in the order of list.
SubList(list, keep) ==
    IF list = <<>> THEN <<>>
    ELSE (IF Len(list) \in keep THEN SubList(SubSeq(list, 1, Len(list) - 1), keep)
                                        \o <<list[Len(list)]>>
          ELSE SubList(SubSeq(list, 1, Len(list) - 1), keep))

SubLists(list) == { SubList(list, keep) : keep \in SUBSET (1..Len(list)) }

NodeOptions == <<NoNodeLabels, NoNodeStyles, NoNodeColors>>
EdgeOptions == <<NoEdgeLabels, NoEdgeStyles, NoEdgeColors, NoArrows>>
AllSuppress == <<NoNodeLabels, NoEdgeLabels, NoNodeStyles, NoEdgeStyles,
                 NoNodeColors, NoEdgeColors, NoArrows>>

FontA == Fontname(<<"F", "a">>)
FontB == Fontname(<<"F", "b">>)

GlobalOptionLists ==
    { <<>>, <<FontA>>, <<DarkTheme>>, <<FontA, DarkTheme>>, <<DarkTheme, FontB>>,
      <<FontA, FontB>>, AllSuppress, AllSuppress \o <<DarkTheme>> }

TwoBareNodes == <<BareNode(1), BareNode(2)>>

Case(gr, opts) == [g |-> gr, opts |-> opts]

\* Node decoration against the node options.
NodeCases ==
    { Case(Graph("Digraph", GraphName, ns, <<>>, <<>>), opts) :
        ns \in NodeLists, opts \in SubLists(NodeOptions) }

\* Edge decoration against the edge options.
EdgeCases ==
    { Case(Graph("Digraph", GraphName, TwoBareNodes, es, <<>>), opts) :
        es \in EdgeLists, opts \in SubLists(EdgeOptions) }

\* Subgraph decoration against the node options.
SubgraphCases ==
    { Case(Graph("Digraph", GraphName, TwoBareNodes, <<>>, ss), opts) :
        ss \in SubgraphLists, opts \in SubLists(NodeOptions) }

\* Graphs of every size, bare or fully decorated, of both kinds, against the
\* global options.
StructNodes(n, full) ==
    [k \in 1..n |-> IF full THEN FullNode(k) ELSE BareNode(k)]
StructEdges(n, m, full) ==
    [k \in 1..(IF n = 0 THEN 0 ELSE m) |->
        IF full THEN FullEdge(1, n) ELSE BareEdge((k % n) + 1, 1)]
StructSubgraphs(n, s, full) ==
    [k \in 1..s |-> IF full THEN FullSubgraph(k, [x \in 1..n |-> x])
                            ELSE BareSubgraph(k, [x \in 1..n |-> n + 1 - x])]

StructCases ==
    { Case(Graph(k, GraphName, StructNodes(n, full), StructEdges(n, m, full),
                 StructSubgraphs(n, s, full)), opts) :
        k \in Kinds, n \in 0..MaxNodes, m \in 0..MaxEdges, s \in 0..MaxSubgraphs,
        full \in BOOLEAN, opts \in GlobalOptionLists }

\* Graphs with a name Id::new rejects.
BadIdCases ==
    { Case(Graph("Digraph", BadGraphName, TwoBareNodes, <<>>, <<>>), <<>>),
      Case(Graph("Digraph", GraphName, <<BareNode(1), BadNode(2)>>,
                 <<BareEdge(1, 2)>>, <<>>), <<>>),
      Case(Graph("Graph", GraphName, <<BareNode(1), BadNode(2)>>,
                 <<>>, <<BareSubgraph(1, <<1, 2>>)>>), <<DarkTheme>>) }

RECURSIVE Orderings(_)
\* The lists that hold every option of the set once, in every order.
Orderings(set) ==
    IF set = {} THEN {<<>>}
    ELSE UNION { { <<o>> \o l : l \in Orderings(set \ {o}) } : o \in set }

\* A decorated graph against every list, in every order, of options that
\* include two Fontname entries.
OrderCases ==
    { Case(Graph("Digraph", GraphName, <<FullNode(1)>>, <<FullEdge(1, 1)>>,
                 <<FullSubgraph(1, <<1>>)>>), opts) :
        opts \in UNION { Orderings(set) :
                           set \in SUBSET {FontA, FontB, DarkTheme, NoNodeLabels} } }

\* The alphabet and the strings handed to Id::new.
IdChars == {"a", "Z", "_", "7", " ", "{", "\"", "!"}
IdStrings == UNION { [1..n -> IdChars] : n \in 0..MaxIdLen }

\* A node without label under every name of IdStrings that Id::new accepts.
NameCases ==
    { Case(Graph("Digraph", GraphName, <<[BareNode(1) EXCEPT !.name = nm]>>,
                 <<>>, <<>>), opts) :
        nm \in { x \in IdStrings : IdNew(x).ok },
        opts \in {<<>>, <<NoNodeStyles>>} }

\* Two decorated nodes of which the first is a member of two subgraphs and
\* the second of none.
MemberCases ==
    { Case(Graph("Digraph", GraphName, <<FullNode(1), BareNode(2)>>, <<>>,
                 <<BareSubgraph(1, <<1>>), FullSubgraph(2, <<1>>)>>), opts) :
        opts \in {<<>>, AllSuppress} }

\* A decorated node, edge and subgraph against every list of suppress options.
FrameCases ==
    { Case(Graph("Digraph", GraphName, <<FullNode(1), BareNode(2)>>,
                 <<FullEdge(1, 2)>>, <<FullSubgraph(1, <<2>>)>>), opts) :
        opts \in SubLists(AllSuppress) }

Cases ==
    NodeCases \cup EdgeCases \cup SubgraphCases \cup StructCases \cup BadIdCases
        \cup OrderCases \cup NameCases \cup MemberCases \cup FrameCases

Pending == [ok |-> FALSE, val |-> <<>>, err |-> "pending"]

\* No method of Text, and no method of Arrow, has returned yet.
NoTextOut == [render |-> None, pre |-> None, line |-> None]
NoArrowOut == [text |-> None, default |-> None]
EmptyGraph == Graph("Digraph", GraphName, <<>>, <<>>, <<>>)

----------------------------------------------------------------------------
(* render_opts as a state machine: one step per write call on the sink.    *)

At(p, a, b) == [pc |-> p, i |-> a, j |-> b]

\* Where control goes when a loop is entered or left.
StartEdges(gr) ==
    IF Len(gr.edges) > 0 THEN At("edge_indent", 1, 0) ELSE At("footer", 0, 0)
StartNodes(gr) ==
    IF Len(gr.nodes) > 0 THEN At("node_indent", 1, 0) ELSE StartEdges(gr)
StartAttrs(gr, opts) ==
    IF HasGlobalAttrs(opts) THEN At("graph_attrs", 0, 0) ELSE StartNodes(gr)
\* StartSubgraphs that never enters the loop over the subgraphs.
SkipSubgraphs(gr, opts) == StartAttrs(gr, opts)

StartSubgraphs(gr, opts) ==
    IF Len(gr.subgraphs) > 0 THEN At("subgraph_open", 1, 0)
    ELSE StartAttrs(gr, opts)

Goto(at) == pc' = at.pc /\ i' = at.i /\ j' = at.j

WriteCall(site, text, ok) ==
    [site |-> site, i |-> i, j |-> j, text |-> text, ok |-> ok]

\* Emit that drops the error of a failed write and goes on.
EmitIgnoringFailure(site, text, at, res) ==
    \/ /\ w' = Append(w, WriteCall(site, text, TRUE))
       /\ Goto(at)
       /\ result' = res
    \/ \E k \in 0..(Len(text) - 1) :
          /\ w' = Append(w, WriteCall(site, SubSeq(text, 1, k), FALSE))
          /\ Goto(at)
          /\ result' = res

\* One write call on the sink, followed by `?`: either all of text reaches the
\* sink and rendering goes on at `at`, or the write fails after a proper
\* prefix of text and render_opts returns the error.
Emit(site, text, at, res) ==
    \/ /\ w' = Append(w, WriteCall(site, text, TRUE))
       /\ Goto(at)
       /\ result' = res
    \/ \E k \in 0..(Len(text) - 1) :
          /\ w' = Append(w, WriteCall(site, SubSeq(text, 1, k), FALSE))
          /\ pc' = "done"
          /\ result' = "Io"
          /\ UNCHANGED <<i, j>>

\* An identifier the Labeller could not build: `?` returns the error.
AbortInvalidId ==
    /\ pc' = "done"
    /\ result' = "InvalidId"
    /\ UNCHANGED <<w, i, j>>

RenderHeader ==
    /\ pc = "header"
    /\ IF ~graph_id(g).ok THEN AbortInvalidId
       ELSE Emit("header", HeaderText(g), StartSubgraphs(g, options), "running")
    /\ UNCHANGED <<g, options, idIn, idOut, lt, suffix, textOut, arrows, arrowOut,
                   made>>

RenderSubgraphOpen ==
    /\ pc = "subgraph_open"
    /\ Emit("subgraph_open", SubgraphText(g, i, options),
            IF Len(subgraph_nodes(g, i)) > 0 THEN At("subgraph_node", i, 1)
            ELSE At("subgraph_close", i, 0),
            "running")
    /\ UNCHANGED <<g, options, idIn, idOut, lt, suffix, textOut, arrows, arrowOut,
                   made>>

RenderSubgraphNode ==
    /\ pc = "subgraph_node"
    /\ LET n == subgraph_nodes(g, i)[j]
       IN  IF ~node_id(g, n).ok THEN AbortInvalidId
           ELSE Emit("subgraph_node", SubgraphNodeText(g, n),
                     IF j < Len(subgraph_nodes(g, i)) THEN At("subgraph_node", i, j + 1)
                     ELSE At("subgraph_close", i, 0),
                     "running")
    /\ UNCHANGED <<g, options, idIn, idOut, lt, suffix, textOut, arrows, arrowOut,
                   made>>

RenderSubgraphClose ==
    /\ pc = "subgraph_close"
    /\ Emit("subgraph_close", SubgraphCloseText,
            IF i < Len(g.subgraphs) THEN At("subgraph_open", i + 1, 0)
            ELSE StartAttrs(g, options),
            "running")
    /\ UNCHANGED <<g, options, idIn, idOut, lt, suffix, textOut, arrows, arrowOut,
                   made>>

RenderGraphAttrs ==
    /\ pc = "graph_attrs"
    /\ Emit("graph_attrs", GraphAttrsText(options), At("node_attrs", 0, 0), "running")
    /\ UNCHANGED <<g, options, idIn, idOut, lt, suffix, textOut, arrows, arrowOut,
                   made>>

RenderNodeAttrs ==
    /\ pc = "node_attrs"
    /\ Emit("node_attrs", NodeAttrsText(options), At("edge_attrs", 0, 0), "running")
    /\ UNCHANGED <<g, options, idIn, idOut, lt, suffix, textOut, arrows, arrowOut,
                   made>>

RenderEdgeAttrs ==
    /\ pc = "edge_attrs"
    /\ Emit("edge_attrs", EdgeAttrsText(options), StartNodes(g), "running")
    /\ UNCHANGED <<g, options, idIn, idOut, lt, suffix, textOut, arrows, arrowOut,
                   made>>

RenderNodeIndent ==
    /\ pc = "node_indent"
    /\ Emit("node_indent", IndentText, At("node_line", i, 0), "running")
    /\ UNCHANGED <<g, options, idIn, idOut, lt, suffix, textOut, arrows, arrowOut,
                   made>>

RenderNodeLine ==
    /\ pc = "node_line"
    /\ IF ~node_id(g, i).ok THEN AbortInvalidId
       ELSE Emit("node_line", NodeText(g, i, options),
                 IF i < Len(g.nodes) THEN At("node_indent", i + 1, 0)
                 ELSE StartEdges(g),
                 "running")
    /\ UNCHANGED <<g, options, idIn, idOut, lt, suffix, textOut, arrows, arrowOut,
                   made>>

RenderEdgeIndent ==
    /\ pc = "edge_indent"
    /\ Emit("edge_indent", IndentText, At("edge_line", i, 0), "running")
    /\ UNCHANGED <<g, options, idIn, idOut, lt, suffix, textOut, arrows, arrowOut,
                   made>>

RenderEdgeLine ==
    /\ pc = "edge_line"
    /\ IF ~node_id(g, source(g, i)).ok \/ ~node_id(g, target(g, i)).ok
       THEN AbortInvalidId
       ELSE Emit("edge_line", EdgeText(g, i, options),
                 IF i < Len(g.edges) THEN At("edge_indent", i + 1, 0)
                 ELSE At("footer", 0, 0),
                 "running")
    /\ UNCHANGED <<g, options, idIn, idOut, lt, suffix, textOut, arrows, arrowOut,
                   made>>

RenderFooter ==
    /\ pc = "footer"
    /\ Emit("footer", FooterText, At("done", 0, 0), "Ok")
    /\ UNCHANGED <<g, options, idIn, idOut, lt, suffix, textOut, arrows, arrowOut,
                   made>>

Init ==
    /\ \E c \in Cases : g = c.g /\ options = c.opts
    /\ pc = "header"
    /\ i = 0
    /\ j = 0
    /\ w = <<>>
    /\ result = "running"
    /\ idIn = <<>>
    /\ idOut = Pending
    /\ lt = LabelStr(<<>>)
    /\ suffix = LabelStr(<<>>)
    /\ textOut = NoTextOut
    /\ arrows = <<>>
    /\ arrowOut = NoArrowOut
    /\ made = None

Next ==
    \/ RenderHeader
    \/ RenderSubgraphOpen
    \/ RenderSubgraphNode
    \/ RenderSubgraphClose
    \/ RenderGraphAttrs
    \/ RenderNodeAttrs
    \/ RenderEdgeAttrs
    \/ RenderNodeIndent
    \/ RenderNodeLine
    \/ RenderEdgeIndent
    \/ RenderEdgeLine
    \/ RenderFooter

Spec == Init /\ [][Next]_vars

----------------------------------------------------------------------------
(* Id::new applied to the strings of IdStrings.                            *)

InitId ==
    /\ g = EmptyGraph
    /\ options = <<>>
    /\ pc = "id"
    /\ i = 0
    /\ j = 0
    /\ w = <<>>
    /\ result = "running"
    /\ idIn \in IdStrings
    /\ idOut = Pending
    /\ lt = LabelStr(<<>>)
    /\ suffix = LabelStr(<<>>)
    /\ textOut = NoTextOut
    /\ arrows = <<>>
    /\ arrowOut = NoArrowOut
    /\ made = None

NewId ==
    /\ pc = "id"
    /\ idOut = Pending
    /\ idOut' = IdNew(idIn)
    /\ UNCHANGED <<g, options, pc, i, j, w, result, idIn,
                   lt, suffix, textOut, arrows, arrowOut, made>>

NextId == NewId

SpecId == InitId /\ [][NextId]_vars

----------------------------------------------------------------------------
(* The methods of Text applied to the Text values of TextsUpTo.            *)

\* The alphabet of the contents: a letter, the backslash, the double quote
\* and the newline.
TextChars == {"n", "\\", "\"", "\n"}
TextStrings(n) == UNION { [1..k -> TextChars] : k \in 0..n }

Variants == {"LabelStr", "EscStr", "HtmlStr"}

TextsUpTo(n) == { [variant |-> v, s |-> s] : v \in Variants, s \in TextStrings(n) }

InitText ==
    /\ g = EmptyGraph
    /\ options = <<>>
    /\ pc = "text"
    /\ i = 0
    /\ j = 0
    /\ w = <<>>
    /\ result = "running"
    /\ idIn = <<>>
    /\ idOut = Pending
    /\ lt \in TextsUpTo(MaxTextLen)
    /\ suffix \in TextsUpTo(MaxSuffixLen)
    /\ textOut = NoTextOut
    /\ arrows = <<>>
    /\ arrowOut = NoArrowOut
    /\ made = None

\* lt.to_dot_string()
Display ==
    /\ pc = "text"
    /\ ~textOut.render.some
    /\ textOut' = [textOut EXCEPT !.render = Some(TextToDotString(lt))]
    /\ UNCHANGED <<g, options, pc, i, j, w, result, idIn, idOut,
                   lt, suffix, arrows, arrowOut, made>>

\* lt.pre_escaped_content()
PreEscapedContent ==
    /\ pc = "text"
    /\ ~textOut.pre.some
    /\ textOut' = [textOut EXCEPT !.pre = Some(pre_escaped_content(lt))]
    /\ UNCHANGED <<g, options, pc, i, j, w, result, idIn, idOut,
                   lt, suffix, arrows, arrowOut, made>>

\* lt.suffix_line(suffix)
SuffixLine ==
    /\ pc = "text"
    /\ ~textOut.line.some
    /\ textOut' = [textOut EXCEPT !.line = Some(suffix_line(lt, suffix))]
    /\ UNCHANGED <<g, options, pc, i, j, w, result, idIn, idOut,
                   lt, suffix, arrows, arrowOut, made>>

NextText == Display \/ PreEscapedContent \/ SuffixLine

SpecText == InitText /\ [][NextText]_vars

----------------------------------------------------------------------------
(* The methods of Arrow applied to the arrows of at most MaxArrowLen       *)
(* shapes.                                                                 *)

Fills == {"Open", "Filled"}
Sides == {"Left", "Right", "Both"}

\* Every value of Shape.
Shapes ==
    {ShapeNone}
    \cup { Shape(n, f, sd) : n \in FillSideShapes, f \in Fills, sd \in Sides }
    \cup { Shape(n, "Filled", sd) : n \in SideShapes, sd \in Sides }
    \cup { Shape("Dot", f, "Both") : f \in Fills }

Arrows == UNION { [1..k -> Shapes] : k \in 0..MaxArrowLen }

InitArrow ==
    /\ g = EmptyGraph
    /\ options = <<>>
    /\ pc = "arrow"
    /\ i = 0
    /\ j = 0
    /\ w = <<>>
    /\ result = "running"
    /\ idIn = <<>>
    /\ idOut = Pending
    /\ lt = LabelStr(<<>>)
    /\ suffix = LabelStr(<<>>)
    /\ textOut = NoTextOut
    /\ arrows \in Arrows
    /\ arrowOut = NoArrowOut
    /\ made = None

\* Arrow::from_arrow(Shape::c()) for a constructor c of Shape
FromConstructor ==
    /\ pc = "arrow"
    /\ arrows = <<>>
    /\ arrowOut = NoArrowOut
    /\ made = None
    /\ \E c \in Constructors :
          /\ made' = Some(c)
          /\ arrows' = ArrowFromArrow(ShapeNew(c))
    /\ UNCHANGED <<g, options, pc, i, j, w, result, idIn, idOut,
                   lt, suffix, textOut, arrowOut>>

\* Arrow { arrows }.to_dot_string()
ToDotString ==
    /\ pc = "arrow"
    /\ ~arrowOut.text.some
    /\ arrowOut' = [arrowOut EXCEPT !.text = Some(ArrowToDotString(arrows))]
    /\ UNCHANGED <<g, options, pc, i, j, w, result, idIn, idOut,
                   lt, suffix, textOut, arrows, made>>

\* Arrow { arrows }.is_default()
IsDefault ==
    /\ pc = "arrow"
    /\ ~arrowOut.default.some
    /\ arrowOut' = [arrowOut EXCEPT !.default = Some(ArrowIsDefault(arrows))]
    /\ UNCHANGED <<g, options, pc, i, j, w, result, idIn, idOut,
                   lt, suffix, textOut, arrows, made>>

NextArrow == FromConstructor \/ ToDotString \/ IsDefault

SpecArrow == InitArrow /\ [][NextArrow]_vars

----------------------------------------------------------------------------
(* What the sink holds, and render_opts as a function of its arguments.    *)

RECURSIVE SinkText(_)
\* The text the sink has received: the texts of its write calls, in order.
SinkText(ws) == IF ws = <<>> THEN <<>> ELSE Head(ws).text \o SinkText(Tail(ws))

\* Everything render_subgraphs writes for subgraph s.
SubgraphBlock(gr, s, opts) ==
    SubgraphText(gr, s, opts)
    \o Concat([k \in 1..Len(subgraph_nodes(gr, s)) |->
                  SubgraphNodeText(gr, subgraph_nodes(gr, s)[k])])
    \o SubgraphCloseText

\* The three global attribute lines of render_nodes, when it writes them.
GlobalAttrsBlock(opts) ==
    IF HasGlobalAttrs(opts)
    THEN GraphAttrsText(opts) \o NodeAttrsText(opts) \o EdgeAttrsText(opts)
    ELSE <<>>

\* The output of a render_opts call on which no write fails and every
\* identifier is valid.
render_opts(gr, opts) ==
    HeaderText(gr)
    \o Concat([s \in 1..Len(gr.subgraphs) |-> SubgraphBlock(gr, s, opts)])
    \o GlobalAttrsBlock(opts)
    \o Concat([n \in 1..Len(gr.nodes) |-> IndentText \o NodeText(gr, n, opts)])
    \o Concat([e \in 1..Len(gr.edges) |-> IndentText \o EdgeText(gr, e, opts)])
    \o FooterText

----------------------------------------------------------------------------
(* Vocabulary of the properties.                                           *)

Range(f) == { f[x] : x \in DOMAIN f }

IsPrefix(a, b) == Len(a) <= Len(b) /\ a = SubSeq(b, 1, Len(a))

\* How many fragments of text equal tok.
Count(text, tok) == Cardinality({ k \in 1..Len(text) : text[k] = tok })

\* Whether part occurs in text as a block of adjacent fragments.
Occurs(part, text) ==
    \E k \in 0..(Len(text) - Len(part)) : SubSeq(text, k + 1, k + Len(part)) = part

AllIdsValid(gr) ==
    /\ graph_id(gr).ok
    /\ \A n \in 1..Len(gr.nodes) : node_id(gr, n).ok

\* The stage of the layout a write call belongs to.
Rank(site) ==
    CASE site = "header" -> 0
      [] site \in {"subgraph_open", "subgraph_node", "subgraph_close"} -> 1
      [] site \in {"graph_attrs", "node_attrs", "edge_attrs"} -> 2
      [] site \in {"node_indent", "node_line"} -> 3
      [] site \in {"edge_indent", "edge_line"} -> 4
      [] site = "footer" -> 5

\* The element indices of the write calls issued at site, in the order written.
IndicesAt(site) ==
    LET sel == SelectSeq(w, LAMBDA r : r.site = site)
    IN  [k \in 1..Len(sel) |-> sel[k].i]

UpTo(n) == [k \in 1..n |-> k]

----------------------------------------------------------------------------
(* The claims.                                                             *)

\* C1: the output is laid out as the header, then the subgraph blocks in the
\* order subgraphs() yields them, then one line per node in nodes() order, then
\* one line per edge in edges() order, then the footer; no node line is written
\* before the last subgraph block and no edge line before the last node line.
\* (The global attribute lines, which are no element of the graph, are the
\* subject of C2; where they are written they lie between two of the stages.)
C1_Layout ==
    /\ \A a, b \in 1..Len(w) :
          a < b =>
             /\ Rank(w[a].site) <= Rank(w[b].site)
             /\ (Rank(w[a].site) = Rank(w[b].site) => w[a].i <= w[b].i)
    /\ result = "Ok" =>
          /\ w[1].site = "header"
          /\ w[Len(w)].site = "footer"
          /\ IndicesAt("header") = <<0>>
          /\ IndicesAt("footer") = <<0>>
          /\ IndicesAt("subgraph_open") = UpTo(Len(g.subgraphs))
          /\ IndicesAt("subgraph_close") = UpTo(Len(g.subgraphs))
          /\ IndicesAt("node_line") = UpTo(Len(g.nodes))
          /\ IndicesAt("edge_line") = UpTo(Len(g.edges))

C1_Witness ==
    /\ result = "Ok"
    /\ Len(g.subgraphs) >= 2
    /\ Len(g.nodes) >= 2
    /\ Len(g.edges) >= 2

\* C2 (as claimed): with Fontname or DarkTheme in the option list the lines
\* graph[...], node[...], edge[...] are the three writes right after the
\* header, before any subgraph block and any node line, for every graph; with
\* neither option none of them is written.
C2_AttrsRightAfterHeader ==
    /\ \A k \in 1..Len(w) :
          /\ w[k].site = "graph_attrs" => k = 2
          /\ w[k].site = "node_attrs" => k = 3
          /\ w[k].site = "edge_attrs" => k = 4
    /\ result = "Ok" =>
          ((FindFontname(options).some \/ DarkTheme \in Range(options))
             <=> Len(w) >= 4 /\ w[2].site = "graph_attrs"
                   /\ w[3].site = "node_attrs" /\ w[4].site = "edge_attrs")

\* C3: when a write to the sink fails, rendering stops at once: render_opts
\* returns the I/O error, the failed write is the last write attempted, and
\* what the sink received is a prefix of the output of a successful render of
\* the same graph with the same options.
C3_FailFast ==
    /\ \A k \in 1..Len(w) :
          ~w[k].ok => k = Len(w) /\ result = "Io" /\ pc = "done"
    /\ (result = "Io" /\ AllIdsValid(g)) =>
          IsPrefix(SinkText(w), render_opts(g, options))

C3_Witness ==
    /\ result = "Io"
    /\ Len(w) >= 6
    /\ ~w[Len(w)].ok
    /\ w[Len(w)].text # <<>>
    /\ w[Len(w)].site = "edge_line"

\* C4 (as claimed): if the identifier of the graph, of a node or of a subgraph
\* is invalid, the render call never completes successfully, and the element
\* is never written in an altered form (an invalid subgraph identifier as an
\* anonymous subgraph block).
C4_InvalidIdAborts ==
    LET BadSubgraph(s) ==
            g.subgraphs[s].name.some /\ ~IdNew(g.subgraphs[s].name.val).ok
    IN  /\ (~AllIdsValid(g) \/ \E s \in 1..Len(g.subgraphs) : BadSubgraph(s))
             => result # "Ok"
        /\ \A k \in 1..Len(w) :
              w[k].site = "subgraph_open" => ~BadSubgraph(w[k].i)

\* C5: Id::new(s) is Ok exactly when s is non-empty, starts with an ASCII
\* letter or `_` and holds only ASCII letters, ASCII digits and `_`; otherwise
\* it is Err(InvalidId); an Ok Id displays as s.
C5_IdNew ==
    LET Letter(c) == c \in AsciiAlphabetic
        Digit(c) == c \in AsciiDigit
        Valid == /\ idIn # <<>>
                 /\ Letter(idIn[1]) \/ idIn[1] = "_"
                 /\ \A k \in 1..Len(idIn) :
                       Letter(idIn[k]) \/ Digit(idIn[k]) \/ idIn[k] = "_"
    IN  idOut # Pending =>
           /\ idOut.ok <=> Valid
           /\ idOut.ok => IdDisplay(idOut.val) = idIn
           /\ ~idOut.ok => idOut.err = "InvalidId"

C5_Witness ==
    /\ idOut # Pending
    /\ idOut.ok
    /\ Len(idIn) = MaxIdLen
    /\ idIn[1] = "_"
    /\ idIn[2] = "7"

\* C6: rendering with no options the graph named g that has no node, no edge
\* and no subgraph writes `digraph g {`, a newline, `}`, a newline, and nothing
\* else.
C6_EmptyGraph ==
    (/\ result = "Ok"
     /\ options = <<>>
     /\ g.kind = "Digraph"
     /\ g.name = <<"g">>
     /\ g.nodes = <<>> /\ g.edges = <<>> /\ g.subgraphs = <<>>)
    => SinkText(w) = <<"digraph", " ", "g", " {", "\n", "}", "\n">>

C6_Witness ==
    /\ result = "Ok"
    /\ options = <<>>
    /\ g.kind = "Digraph"
    /\ g.name = <<"g">>
    /\ g.nodes = <<>> /\ g.edges = <<>> /\ g.subgraphs = <<>>

\* C7: a node line is four spaces, the node identifier, the fragments
\* [label=..], [style=".."], [color=..], [shape=..] in this order with nothing
\* between them, then `;` and a newline; the label fragment is there iff
\* NoNodeLabels is not set, the style fragment iff NoNodeStyles is not set and
\* the style is not None, the color fragment iff NoNodeColors is not set and the
\* node has a color, the shape fragment iff the node has a shape.
C7_NodeLine ==
    \A k \in 1..Len(w) :
       (w[k].site = "node_line" /\ w[k].ok) =>
          LET n == w[k].i
              set == Range(options)
              label == IF NoNodeLabels \notin set
                       THEN <<"[label=">> \o TextToDotString(node_label(g, n))
                                \o <<"]">>
                       ELSE <<>>
              style == IF NoNodeStyles \notin set /\ node_style(g, n) # "None"
                       THEN <<"[style=\"", StyleAsSlice(node_style(g, n)), "\"]">>
                       ELSE <<>>
              color == IF NoNodeColors \notin set /\ node_color(g, n) # None
                       THEN <<"[color=">> \o TextToDotString(node_color(g, n).val)
                                \o <<"]">>
                       ELSE <<>>
              shape == IF node_shape(g, n) # None
                       THEN <<"[shape=">> \o TextToDotString(node_shape(g, n).val)
                                \o <<"]">>
                       ELSE <<>>
          IN  /\ k > 1
              /\ w[k - 1].site = "node_indent"
              /\ w[k - 1].text = <<"    ">>
              /\ w[k].text = g.nodes[n].name \o label \o style \o color \o shape
                                \o <<";", "\n">>

C7_Witness ==
    \E k \in 1..Len(w) :
       /\ w[k].site = "node_line" /\ w[k].ok
       /\ options = <<NoNodeLabels>>
       /\ node_style(g, w[k].i) # "None"
       /\ node_color(g, w[k].i) # None
       /\ node_shape(g, w[k].i) # None

\* C8: an edge line is four spaces, the source identifier, a space, the edge
\* operator, a space, the target identifier, the fragments [label=..],
\* [style=".."], [color=..] and the arrow bracket in this order with nothing
\* between them, then `;` and a newline; the label fragment is there iff
\* NoEdgeLabels is not set, the style fragment iff NoEdgeStyles is not set and
\* the style is not None, the color fragment iff NoEdgeColors is not set and the
\* edge has a color, the arrow bracket iff NoArrows is not set and the start or
\* the end arrow is not the default.
C8_EdgeLine ==
    \A k \in 1..Len(w) :
       (w[k].site = "edge_line" /\ w[k].ok) =>
          LET e == w[k].i
              set == Range(options)
              op == IF g.kind = "Digraph" THEN "->" ELSE "--"
              label == IF NoEdgeLabels \notin set
                       THEN <<"[label=">> \o TextToDotString(edge_label(g, e))
                                \o <<"]">>
                       ELSE <<>>
              style == IF NoEdgeStyles \notin set /\ edge_style(g, e) # "None"
                       THEN <<"[style=\"", StyleAsSlice(edge_style(g, e)), "\"]">>
                       ELSE <<>>
              color == IF NoEdgeColors \notin set /\ edge_color(g, e) # None
                       THEN <<"[color=">> \o TextToDotString(edge_color(g, e).val)
                                \o <<"]">>
                       ELSE <<>>
              fixed == g.nodes[g.edges[e].from].name \o <<" ", op, " ">>
                          \o g.nodes[g.edges[e].to].name \o label \o style \o color
              hasBracket == /\ NoArrows \notin set
                            /\ \/ edge_start_arrow(g, e) # <<>>
                               \/ edge_end_arrow(g, e) # <<>>
              rest == SubSeq(w[k].text, Len(fixed) + 1, Len(w[k].text))
          IN  /\ k > 1
              /\ w[k - 1].site = "edge_indent"
              /\ w[k - 1].text = <<"    ">>
              /\ IsPrefix(fixed, w[k].text)
              /\ IF hasBracket
                 THEN /\ Len(rest) > 4
                      /\ rest[1] = "["
                      /\ SubSeq(rest, Len(rest) - 2, Len(rest)) = <<"]", ";", "\n">>
                      /\ Count(rest, "[") = 1
                      /\ Count(rest, "]") = 1
                 ELSE rest = <<";", "\n">>

C8_Witness ==
    \E k \in 1..Len(w) :
       /\ w[k].site = "edge_line" /\ w[k].ok
       /\ options = <<NoEdgeStyles>>
       /\ edge_style(g, w[k].i) # "None"
       /\ edge_color(g, w[k].i) # None
       /\ edge_start_arrow(g, w[k].i) # <<>>
       /\ edge_end_arrow(g, w[k].i) # <<>>

\* C9: no node line and no edge line holds a style fragment for an element
\* whose style is Style::None, [style=""] is never written, and an element
\* whose style is not None and not suppressed has [style="<name>"] exactly once
\* on its line.
C9_StyleNone ==
    \A k \in 1..Len(w) :
       (w[k].site \in {"node_line", "edge_line"} /\ w[k].ok) =>
          LET isNode == w[k].site = "node_line"
              style == IF isNode THEN node_style(g, w[k].i)
                       ELSE edge_style(g, w[k].i)
              suppressed == IF isNode THEN NoNodeStyles \in Range(options)
                            ELSE NoEdgeStyles \in Range(options)
          IN  /\ ~Occurs(<<"[style=\"", "\"]">>, w[k].text)
              /\ style = "None" => Count(w[k].text, "[style=\"") = 0
              /\ (style # "None" /\ ~suppressed) =>
                    /\ Count(w[k].text, "[style=\"") = 1
                    /\ Occurs(<<"[style=\"", StyleAsSlice(style), "\"]">>, w[k].text)

C9_Witness ==
    /\ \E k \in 1..Len(w) :
          /\ w[k].site = "node_line" /\ w[k].ok
          /\ node_style(g, w[k].i) = "None"
    /\ \E k \in 1..Len(w) :
          /\ w[k].site = "edge_line" /\ w[k].ok
          /\ edge_style(g, w[k].i) # "None"
          /\ NoEdgeStyles \notin Range(options)

\* C10: with arrows not suppressed, an edge whose start and end arrows are both
\* non-default has exactly one bracket group
\* [arrowhead="<end>" dir="both" arrowtail="<start>"], and an edge whose end
\* arrow is non-default and whose start arrow is default has exactly
\* [arrowhead="<end>"], with no dir and no arrowtail.
C10_ArrowBracket ==
    \A k \in 1..Len(w) :
       (w[k].site = "edge_line" /\ w[k].ok /\ NoArrows \notin Range(options)) =>
          LET start == edge_start_arrow(g, w[k].i)
              end == edge_end_arrow(g, w[k].i)
              text == w[k].text
              both == <<"[", "arrowhead=\"">> \o ArrowToDotString(end)
                         \o <<"\"", " dir=\"both\" arrowtail=\"">>
                         \o ArrowToDotString(start) \o <<"\"", "]">>
              endOnly == <<"[", "arrowhead=\"">> \o ArrowToDotString(end)
                            \o <<"\"", "]">>
              EndsWith(tail) ==
                 /\ Len(text) >= Len(tail)
                 /\ SubSeq(text, Len(text) - Len(tail) + 1, Len(text)) = tail
          IN  /\ (start # <<>> /\ end # <<>>) =>
                    /\ EndsWith(both \o <<";", "\n">>)
                    /\ Count(text, "[") = 1
                    /\ Count(text, "arrowhead=\"") = 1
                    /\ Count(text, " dir=\"both\" arrowtail=\"") = 1
              /\ (start = <<>> /\ end # <<>>) =>
                    /\ EndsWith(endOnly \o <<";", "\n">>)
                    /\ Count(text, "[") = 1
                    /\ Count(text, "arrowhead=\"") = 1
                    /\ Count(text, " dir=\"both\" arrowtail=\"") = 0

C10_Witness ==
    /\ NoArrows \notin Range(options)
    /\ \E k \in 1..Len(w) :
          /\ w[k].site = "edge_line" /\ w[k].ok
          /\ edge_start_arrow(g, w[k].i) # <<>>
          /\ edge_end_arrow(g, w[k].i) # <<>>
    /\ \E k \in 1..Len(w) :
          /\ w[k].site = "edge_line" /\ w[k].ok
          /\ edge_start_arrow(g, w[k].i) = <<>>
          /\ edge_end_arrow(g, w[k].i) # <<>>

\* C11: an arrow is default exactly when its sequence of shapes is empty: an
\* edge whose start and end arrows are both the empty sequence never gets an
\* arrow bracket, whatever the options, while an edge whose end arrow is
\* Arrow::none(), the one-element sequence [NoArrow], gets the bracket when
\* NoArrows is not set, and the bracket holds arrowhead="none".
C11_DefaultIsEmpty ==
    \A k \in 1..Len(w) :
       (w[k].site = "edge_line" /\ w[k].ok) =>
          LET start == g.edges[w[k].i].start_arrow
              end == g.edges[w[k].i].end_arrow
              text == w[k].text
          IN  /\ (start = <<>> /\ end = <<>>) =>
                    /\ Count(text, "[") = 0
                    /\ Count(text, "arrowhead=\"") = 0
                    /\ Count(text, " dir=\"both\" arrowtail=\"") = 0
              /\ (end = <<[shape |-> "NoArrow", fill |-> "Filled", side |-> "Both"]>>
                     /\ NoArrows \notin Range(options)) =>
                    /\ Count(text, "[") = 1
                    /\ Occurs(<<"[", "arrowhead=\"", "none", "\"">>, text)

C11_Witness ==
    /\ NoArrows \notin Range(options)
    /\ \E k \in 1..Len(w) :
          /\ w[k].site = "edge_line" /\ w[k].ok
          /\ g.edges[w[k].i].start_arrow = <<>>
          /\ g.edges[w[k].i].end_arrow = ArrowNone
    /\ \E k \in 1..Len(w) :
          /\ w[k].site = "edge_line" /\ w[k].ok
          /\ g.edges[w[k].i].start_arrow = <<>>
          /\ g.edges[w[k].i].end_arrow = <<>>

\* The graph gr with the same topology and identifiers and no decoration:
\* every label, style, color and arrow is the default of the Labeller; the
\* shapes are dropped too unless keepShapes.
Undecorated(gr, keepShapes) ==
    [gr EXCEPT
       !.nodes = [n \in 1..Len(gr.nodes) |->
                    [name |-> gr.nodes[n].name, label |-> None, style |-> "None",
                     color |-> None,
                     shape |-> IF keepShapes THEN gr.nodes[n].shape ELSE None]],
       !.edges = [e \in 1..Len(gr.edges) |->
                    [from |-> gr.edges[e].from, to |-> gr.edges[e].to,
                     label |-> LabelStr(<<>>), style |-> "None", color |-> None,
                     start_arrow |-> <<>>, end_arrow |-> <<>>]],
       !.subgraphs = [k \in 1..Len(gr.subgraphs) |->
                    [name |-> gr.subgraphs[k].name, label |-> LabelStr(<<>>),
                     style |-> "None", color |-> None,
                     shape |-> IF keepShapes THEN gr.subgraphs[k].shape ELSE None,
                     nodes |-> gr.subgraphs[k].nodes]]]

\* Whether every suppress option is in the list opts.
AllSuppressed(opts) ==
    {NoNodeLabels, NoEdgeLabels, NoNodeStyles, NoEdgeStyles, NoNodeColors,
     NoEdgeColors, NoArrows} \subseteq Range(opts)

\* C12 (as claimed): with every suppress option set, the output for a graph
\* whose elements carry labels, styles, colors, shapes and arrows is the output,
\* with the same options, for the graph of the same topology and identifiers
\* that carries no decoration at all.
C12_SuppressedEqualsUndecorated ==
    (result = "Ok" /\ AllSuppressed(options)) =>
       SinkText(w) = render_opts(Undecorated(g, FALSE), options)

\* C12 (amended): with every suppress option set, the output for a decorated
\* graph is the output, with the same options, for the graph of the same
\* topology and identifiers that carries no decoration but the shapes of its
\* nodes and subgraphs: no option suppresses a shape.
C12_SuppressedEqualsShapesOnly ==
    (result = "Ok" /\ AllSuppressed(options)) =>
       /\ SinkText(w) = render_opts(Undecorated(g, TRUE), options)
       /\ \A k \in 1..Len(w) :
             /\ Count(w[k].text, "[label=") = 0
             /\ Count(w[k].text, "label=") = 0
             /\ Count(w[k].text, "[style=\"") = 0
             /\ Count(w[k].text, "style=\"") = 0
             /\ Count(w[k].text, "[color=") = 0
             /\ Count(w[k].text, "[") = 0

C12_Witness ==
    /\ result = "Ok"
    /\ AllSuppressed(options)
    /\ \E n \in 1..Len(g.nodes) :
          /\ g.nodes[n].label # None /\ g.nodes[n].style # "None"
          /\ g.nodes[n].color # None /\ g.nodes[n].shape # None
    /\ \E e \in 1..Len(g.edges) :
          /\ g.edges[e].label # LabelStr(<<>>) /\ g.edges[e].style # "None"
          /\ g.edges[e].color # None
          /\ g.edges[e].start_arrow # <<>> /\ g.edges[e].end_arrow # <<>>
    /\ \E k \in 1..Len(g.subgraphs) :
          /\ g.subgraphs[k].label # LabelStr(<<>>)
          /\ g.subgraphs[k].style # "None"
          /\ g.subgraphs[k].shape # None

\* The list opts with the entries at positions x and y exchanged.
Swap(opts, x, y) == [opts EXCEPT ![x] = opts[y], ![y] = opts[x]]

\* The Fontname values of the list opts.
Fonts(opts) == { opts[k].arg : k \in { x \in 1..Len(opts) : opts[x].opt = "Fontname" } }

\* C13 (as claimed): the output depends only on which options are present:
\* exchanging two entries of the option list, two Fontname entries included,
\* never changes the output.  (Two lists that are permutations of each other
\* are linked by such exchanges, and the lists of OrderCases hold every order.)
C13_OrderIndependent ==
    result = "Ok" =>
       \A x, y \in 1..Len(options) :
          render_opts(g, Swap(options, x, y)) = SinkText(w)

\* C13 (amended): for option lists whose Fontname entries all name the same
\* font the output does not depend on the order of the list; of several
\* different Fontname entries the first of the list is the one written, so
\* their order matters.
C13_OrderIndependentButFonts ==
    result = "Ok" =>
       /\ Cardinality(Fonts(options)) <= 1 =>
             \A x, y \in 1..Len(options) :
                render_opts(g, Swap(options, x, y)) = SinkText(w)
       /\ Fonts(options) # {} =>
             LET first == CHOOSE k \in 1..Len(options) :
                             /\ options[k].opt = "Fontname"
                             /\ \A x \in 1..(k - 1) : options[x].opt # "Fontname"
                 font == <<"fontname=\"">> \o options[first].arg \o <<"\"">>
             IN  \A k \in 1..Len(w) :
                    w[k].site \in {"graph_attrs", "node_attrs", "edge_attrs"} =>
                       /\ Occurs(font, w[k].text)
                       /\ Count(w[k].text, "fontname=\"") = 1

C13_Witness ==
    /\ result = "Ok"
    /\ options = <<DarkTheme, NoNodeLabels, FontA>>
    /\ Len(g.nodes) > 0
    /\ Len(g.subgraphs) > 0

\* C14: the kind of the graph fixes the keyword of the header and the operator
\* of every edge line of one render: `digraph` and `->` for Kind::Digraph,
\* `graph` and `--` for Kind::Graph; no output holds the keyword of one kind
\* and the operator of the other.
C14_KindFixesSyntax ==
    LET directed == g.kind = "Digraph"
        word == IF directed THEN "digraph" ELSE "graph"
        op == IF directed THEN "->" ELSE "--"
        otherOp == IF directed THEN "--" ELSE "->"
    IN  \A k \in 1..Len(w) :
           /\ (w[k].site = "header" /\ w[k].text # <<>>) =>
                 /\ k = 1
                 /\ w[k].text[1] = word
           /\ (w[k].site = "edge_line" /\ w[k].ok) =>
                 LET from == g.nodes[g.edges[w[k].i].from].name
                 IN  /\ SubSeq(w[k].text, Len(from) + 1, Len(from) + 3)
                           = <<" ", op, " ">>
                     /\ Count(w[k].text, op) = 1
                     /\ Count(w[k].text, otherOp) = 0
                     /\ w[1].text[1] = word
           /\ Count(w[k].text, otherOp) = 0

C14_Witness ==
    /\ result = "Ok"
    /\ g.kind = "Graph"
    /\ Len(g.edges) >= 2
    /\ \E k \in 1..Len(w) : w[k].site = "edge_line" /\ Count(w[k].text, "--") = 1

\* C15 (as claimed): for every Text value lt of any of the three variants,
\* rendering lt gives the same string as rendering
\* EscStr(lt.pre_escaped_content()).
C15_PreEscapedLaw ==
    (textOut.render.some /\ textOut.pre.some) =>
       TextToDotString(EscStr(textOut.pre.val)) = textOut.render.val

\* A rendered text without its first and its last fragment, the delimiters.
Inner(text) == SubSeq(text, 2, Len(text) - 1)

\* C16 (as claimed): for all Text values a and b the rendering of
\* a.suffix_line(b) is a double quote, the rendering of a without its
\* delimiters, backslash n backslash n, the rendering of b without its
\* delimiters, and a double quote; the result of suffix_line is an EscStr.
C16_SuffixLine ==
    textOut.line.some =>
       /\ textOut.line.val.variant = "EscStr"
       /\ TextToDotString(textOut.line.val)
             = <<"\"">> \o Inner(TextToDotString(lt)) \o <<"\\", "n", "\\", "n">>
                  \o Inner(TextToDotString(suffix)) \o <<"\"">>

\* C17: normalization is idempotent: pre_escaped_content of the EscStr made of
\* the pre_escaped_content of a Text x is the pre_escaped_content of x;
\* pre_escaped_content of an EscStr is its content unchanged, and so is
\* pre_escaped_content of a LabelStr that holds no backslash.
C17_NormalizeIdempotent ==
    textOut.pre.some =>
       /\ pre_escaped_content([variant |-> "EscStr", s |-> textOut.pre.val])
             = textOut.pre.val
       /\ lt.variant = "EscStr" => textOut.pre.val = lt.s
       /\ (lt.variant = "LabelStr" /\ \A k \in 1..Len(lt.s) : lt.s[k] # "\\")
             => textOut.pre.val = lt.s

C17_Witness ==
    /\ textOut.pre.some
    /\ lt.variant = "LabelStr"
    /\ lt.s = <<"\"", "\n">>

\* C18: rendering LabelStr(s) gives a double quote, then s in which every
\* backslash is doubled and every double quote and control character is
\* escaped (a quote as backslash quote, a newline as backslash n), then a double
\* quote; a backslash of s is never left single in front of a character of s.
C18_LabelStrRender ==
    (textOut.render.some /\ lt.variant = "LabelStr") =>
       LET Escaped(c) == CASE c = "\\" -> <<"\\", "\\">>
                           [] c = "\"" -> <<"\\", "\"">>
                           [] c = "\n" -> <<"\\", "n">>
                           [] OTHER -> <<c>>
           text == textOut.render.val
           body == Concat([k \in 1..Len(lt.s) |-> Escaped(lt.s[k])])
       IN  /\ text = <<"\"">> \o body \o <<"\"">>
           /\ Count(body, "\\")
                 = 2 * Count(lt.s, "\\") + Count(lt.s, "\"") + Count(lt.s, "\n")
           /\ Count(body, "\n") = 0

C18_Witness ==
    /\ textOut.render.some
    /\ lt.variant = "LabelStr"
    /\ lt.s = <<"\\", "n">>

\* C19 (as claimed): rendering EscStr(s) gives a double quote, the content s
\* verbatim, and a double quote: the content is not altered.
C19_EscStrVerbatim ==
    (textOut.render.some /\ lt.variant = "EscStr") =>
       textOut.render.val = <<"\"">> \o lt.s \o <<"\"">>

\* C19 (amended): rendering EscStr(s) gives a double quote, then s in which
\* every backslash is left as it is, never doubled, and every other character
\* is escaped by the default character escaping (a double quote as backslash
\* quote, a newline as backslash n, a letter as itself), then a double quote;
\* a content of letters and backslashes is rendered verbatim, so that the
\* sequences backslash n, backslash l and backslash r reach DOT as they are.
C19_EscStrRender ==
    (textOut.render.some /\ lt.variant = "EscStr") =>
       LET Escaped(c) == CASE c = "\\" -> <<"\\">>
                           [] c = "\"" -> <<"\\", "\"">>
                           [] c = "\n" -> <<"\\", "n">>
                           [] OTHER -> <<c>>
           body == Concat([k \in 1..Len(lt.s) |-> Escaped(lt.s[k])])
       IN  /\ textOut.render.val = <<"\"">> \o body \o <<"\"">>
           /\ Count(body, "\\")
                 = Count(lt.s, "\\") + Count(lt.s, "\"") + Count(lt.s, "\n")
           /\ (Count(lt.s, "\"") = 0 /\ Count(lt.s, "\n") = 0) => body = lt.s

C19_Witness ==
    /\ textOut.render.some
    /\ lt.variant = "EscStr"
    /\ lt.s = <<"\\", "n">>

\* C20: Shape::to_dot_string renders a shape as its modifiers followed by its
\* lower-case name: Normal, Box, ICurve, Diamond and Inv as the fill text (`o`
\* for Open, nothing for Filled), the side text (`l` for Left, `r` for Right,
\* nothing for Both) and the name; Crow, Curve, Tee and Vee as the side text and
\* the name; Dot as the fill text and `dot`; NoArrow as `none`.  An Arrow
\* renders as the renderings of its shapes one after the other, in the order
\* of the sequence.
C20_ShapeToDotString ==
    arrowOut.text.some =>
       LET FillText(sh) == IF sh.fill = "Open" THEN <<"o">> ELSE <<>>
           SideText(sh) == IF sh.side = "Left" THEN <<"l">>
                           ELSE IF sh.side = "Right" THEN <<"r">> ELSE <<>>
           Lower(name) ==
              CASE name = "Normal" -> "normal" [] name = "Box" -> "box"
                [] name = "ICurve" -> "icurve" [] name = "Diamond" -> "diamond"
                [] name = "Inv" -> "inv" [] name = "Crow" -> "crow"
                [] name = "Curve" -> "curve" [] name = "Tee" -> "tee"
                [] name = "Vee" -> "vee" [] name = "Dot" -> "dot"
           Expected(sh) ==
              IF sh.shape \in {"Normal", "Box", "ICurve", "Diamond", "Inv"}
              THEN FillText(sh) \o SideText(sh) \o <<Lower(sh.shape)>>
              ELSE IF sh.shape \in {"Crow", "Curve", "Tee", "Vee"}
              THEN SideText(sh) \o <<Lower(sh.shape)>>
              ELSE IF sh.shape = "Dot" THEN FillText(sh) \o <<"dot">>
              ELSE <<"none">>
       IN  arrowOut.text.val = Concat([k \in 1..Len(arrows) |-> Expected(arrows[k])])

C20_Witness ==
    /\ arrowOut.text.some
    /\ Len(arrows) = MaxArrowLen
    /\ arrows[1] = [shape |-> "Box", fill |-> "Open", side |-> "Left"]
    /\ arrows[2] = [shape |-> "Crow", fill |-> "Filled", side |-> "Right"]
    /\ arrowOut.text.val[1] = "o"

\* C21 (as claimed): every argument-less constructor of Shape returns the
\* shape of its name, Filled and Both where the shape takes the modifiers:
\* Shape::dot() returns Dot and renders as `dot`, as none, normal, boxed, crow,
\* curve, icurve, diamond, inv, tee and vee render as `none`, `normal`, `box`,
\* `crow`, `curve`, `icurve`, `diamond`, `inv`, `tee` and `vee`.
C21_ConstructorsMatchNames ==
    made # None =>
       LET Variant == [none |-> "NoArrow", normal |-> "Normal", boxed |-> "Box",
                       crow |-> "Crow", curve |-> "Curve", icurve |-> "ICurve",
                       diamond |-> "Diamond", dot |-> "Dot", inv |-> "Inv",
                       tee |-> "Tee", vee |-> "Vee"]
           Rendering == [none |-> "none", normal |-> "normal", boxed |-> "box",
                         crow |-> "crow", curve |-> "curve", icurve |-> "icurve",
                         diamond |-> "diamond", dot |-> "dot", inv |-> "inv",
                         tee |-> "tee", vee |-> "vee"]
       IN  /\ arrows = <<[shape |-> Variant[made.val], fill |-> "Filled",
                          side |-> "Both"]>>
           /\ arrowOut.text # None => arrowOut.text.val = <<Rendering[made.val]>>

\* C22 (as claimed): with no options each subgraph is written, before any node
\* line, as a block indented inside the graph: four spaces and
\* `subgraph <id> {`, eight spaces and `label=<rendered label>;`, an empty line,
\* eight spaces and `<node-id>;` for each member node in subgraph_nodes order,
\* four spaces and `}`, and an empty line after the block.
C22_SubgraphBlockIndented ==
    options = <<>> =>
       \A k \in 1..Len(w) :
          /\ (w[k].site = "subgraph_open" /\ w[k].ok
                /\ g.subgraphs[w[k].i].name # None
                /\ IdNew(g.subgraphs[w[k].i].name.val).ok
                /\ g.subgraphs[w[k].i].style = "None"
                /\ g.subgraphs[w[k].i].shape = None) =>
                /\ w[k].text
                      = <<"    ", "subgraph ">> \o g.subgraphs[w[k].i].name.val
                           \o <<" ", "{\n">>
                           \o <<"        ", "label=">>
                           \o TextToDotString(g.subgraphs[w[k].i].label)
                           \o <<";\n">> \o <<"\n">>
                /\ \A x \in 1..(k - 1) : w[x].site # "node_line"
          /\ (w[k].site = "subgraph_node" /\ w[k].ok) =>
                w[k].text
                   = <<"        ">>
                        \o g.nodes[g.subgraphs[w[k].i].nodes[w[k].j]].name
                        \o <<";", "\n">>
          /\ (w[k].site = "subgraph_close" /\ w[k].ok) =>
                w[k].text = <<"    ", "}", "\n", "\n">>

\* C23: a self-loop edge is rendered like any other edge: its line holds the
\* identifier of the one node on both sides of the edge operator,
\* `<id> <op> <id>`, and the node still has exactly one node line.
C23_SelfLoop ==
    \A k \in 1..Len(w) :
       (w[k].site = "edge_line" /\ w[k].ok
          /\ g.edges[w[k].i].from = g.edges[w[k].i].to) =>
          LET n == g.edges[w[k].i].from
              name == g.nodes[n].name
              op == IF g.kind = "Digraph" THEN "->" ELSE "--"
          IN  /\ IsPrefix(name \o <<" ", op, " ">> \o name, w[k].text)
              /\ w[k - 1].site = "edge_indent"
              /\ Cardinality({ x \in 1..Len(w) :
                                 w[x].site = "node_line" /\ w[x].i = n }) = 1

C23_Witness ==
    /\ result = "Ok"
    /\ g.kind = "Graph"
    /\ \E k \in 1..Len(w) :
          /\ w[k].site = "edge_line" /\ w[k].ok
          /\ g.edges[w[k].i].from = g.edges[w[k].i].to
          /\ Len(g.nodes) = 1

\* C24: a node for which the client supplies no label is rendered with its own
\* identifier as label: when node labels are not suppressed its line is four
\* spaces, the identifier, then [label="<identifier>"], for every valid
\* identifier.
C24_DefaultLabelIsId ==
    \A k \in 1..Len(w) :
       (w[k].site = "node_line" /\ w[k].ok
          /\ g.nodes[w[k].i].label = None
          /\ NoNodeLabels \notin Range(options)) =>
          LET name == g.nodes[w[k].i].name
          IN  /\ w[k - 1].text = <<"    ">>
              /\ IsPrefix(name \o <<"[label=", "\"">> \o name \o <<"\"", "]">>,
                          w[k].text)

C24_Witness ==
    \E k \in 1..Len(w) :
       /\ w[k].site = "node_line" /\ w[k].ok
       /\ g.nodes[w[k].i].label = None
       /\ options = <<>>
       /\ g.nodes[w[k].i].name = <<"_", "7", "Z">>

\* The positions of text at which the fragment tok stands.
Positions(text, tok) == { k \in 1..Len(text) : text[k] = tok }

\* C25 (as claimed): a subgraph whose subgraph_color is present has, unless
\* colors are suppressed, exactly one line `color=<rendered color>;` in its
\* block, after the style line and before the shape line; a subgraph without
\* color has no color line.
C25_SubgraphColorLine ==
    \A k \in 1..Len(w) :
       (w[k].site = "subgraph_open" /\ w[k].ok) =>
          LET color == subgraph_color(g, w[k].i)
              line  == <<"color=">> \o TextToDotString(color.val) \o <<";\n">>
              text  == w[k].text
          IN  IF color.some /\ NoNodeColors \notin Range(options)
              THEN /\ Count(text, "color=") = 1
                   /\ \E p \in Positions(text, "color=") :
                         /\ SubSeq(text, p, p + Len(line) - 1) = line
                         /\ \A q \in Positions(text, "style=\"") : q < p
                         /\ \A q \in Positions(text, "shape=\"") : p < q
              ELSE color = None => Count(text, "color=") = 0

\* The number of double quotes in a fragment.
Quotes(tok) ==
    IF tok \in {"shape=\"", "style=\"", "\"", "\";\n", "\\\""} THEN 1 ELSE 0

RECURSIVE QuotesIn(_)
QuotesIn(text) ==
    IF text = <<>> THEN 0 ELSE Quotes(Head(text)) + QuotesIn(Tail(text))

\* The line of text that starts at position p: up to the first fragment that
\* ends the line.
LineAt(text, p) ==
    LET ends == { q \in p..Len(text) : text[q] \in {";\n", "\";\n", "\n"} }
        last == CHOOSE q \in ends : \A x \in ends : q <= x
    IN  SubSeq(text, p, last)

\* C26 (as claimed): a subgraph whose subgraph_shape is present has exactly one
\* line `shape="<shape>";` in its block, before the member node lines, whose
\* value is opened and closed by one double quote each; a subgraph without
\* shape has no shape line.
C26_SubgraphShapeBalanced ==
    \A k \in 1..Len(w) :
       (w[k].site = "subgraph_open" /\ w[k].ok) =>
          LET shape == subgraph_shape(g, w[k].i)
              text  == w[k].text
          IN  IF shape.some
              THEN /\ Count(text, "shape=\"") = 1
                   /\ \A p \in Positions(text, "shape=\"") :
                         LET line == LineAt(text, p)
                         IN  /\ QuotesIn(line) = 2
                             /\ line[Len(line)] \in {";\n", "\";\n"}
                   /\ \A x \in 1..(k - 1) :
                         ~(w[x].site = "subgraph_node" /\ w[x].i = w[k].i)
              ELSE Count(text, "shape=\"") = 0

\* C27: in the global attribute block the node[...] and edge[...] lines carry
\* the same attribute list. With DarkTheme the graph[...] line carries
\* bgcolor="black" fontcolor="white" and the node and edge lines carry
\* color="white" fontcolor="white"; with Fontname(f) (the first one of the
\* options) the three lines carry fontname="f" as first attribute; with both,
\* the fontname precedes the colors, the attributes one space apart.
C27_GlobalAttributeLines ==
    LET f    == FindFontname(options)
        dark == DarkTheme \in Range(options)
        font == IF f.some THEN <<"fontname=\"">> \o f.val \o <<"\"">> ELSE <<>>
        sep  == IF f.some /\ dark THEN <<" ">> ELSE <<>>
        graphColors   == IF dark
                         THEN <<"bgcolor=\"black\"", " ", "fontcolor=\"white\"">>
                         ELSE <<>>
        contentColors == IF dark
                         THEN <<"color=\"white\"", " ", "fontcolor=\"white\"">>
                         ELSE <<>>
    IN  \A k \in 1..Len(w) :
           /\ (w[k].site = "graph_attrs" /\ w[k].ok) =>
                 w[k].text = <<"    graph[">> \o font \o sep \o graphColors
                                \o <<"];", "\n">>
           /\ (w[k].site = "node_attrs" /\ w[k].ok) =>
                 w[k].text = <<"    node[">> \o font \o sep \o contentColors
                                \o <<"];", "\n">>
           /\ (w[k].site = "edge_attrs" /\ w[k].ok) =>
                 /\ w[k].text = <<"    edge[">> \o font \o sep \o contentColors
                                   \o <<"];", "\n">>
                 /\ w[k - 1].site = "node_attrs"
                 /\ Tail(w[k].text) = Tail(w[k - 1].text)

C27_Witness ==
    /\ options = <<DarkTheme, FontB>>
    /\ \E k \in 1..Len(w) : w[k].site = "edge_attrs" /\ w[k].ok

\* Whether text ends with the fragments of part.
IsSuffix(part, text) ==
    /\ Len(part) <= Len(text)
    /\ part = SubSeq(text, Len(text) - Len(part) + 1, Len(text))

\* C28: with arrows not suppressed, an edge whose start arrow is not the
\* default and whose end arrow is the default ends with the arrow bracket
\* [ dir="both" arrowtail="<start>"]: the line holds no arrowhead attribute and
\* the content of the bracket begins with a space directly after the `[`.
C28_StartArrowOnly ==
    \A k \in 1..Len(w) :
       (w[k].site = "edge_line" /\ w[k].ok
          /\ NoArrows \notin Range(options)
          /\ ~ArrowIsDefault(g.edges[w[k].i].start_arrow)
          /\ ArrowIsDefault(g.edges[w[k].i].end_arrow)) =>
          /\ IsSuffix(<<"[", " dir=\"both\" arrowtail=\"">>
                         \o ArrowToDotString(g.edges[w[k].i].start_arrow)
                         \o <<"\"", "]", ";", "\n">>,
                      w[k].text)
          /\ Count(w[k].text, "arrowhead=\"") = 0
          /\ Count(w[k].text, " dir=\"both\" arrowtail=\"") = 1

C28_Witness ==
    \E k \in 1..Len(w) :
       /\ w[k].site = "edge_line" /\ w[k].ok
       /\ options = <<>>
       /\ g.edges[w[k].i].start_arrow = ArrowTee
       /\ ArrowIsDefault(g.edges[w[k].i].end_arrow)

\* The fragments that open an attribute of a node line.
AttributeOpeners == {"[label=", "[style=\"", "[color=", "[shape="}

\* The number of subgraphs node n is a member of.
Memberships(gr, n) ==
    Cardinality({ s \in 1..Len(gr.subgraphs) : n \in Range(gr.subgraphs[s].nodes) })

\* C29: subgraph membership does not change the node section: every node of
\* nodes() has exactly one node line, with the attributes it has in the graph
\* without subgraphs, whether it is a member of zero, one or several
\* subgraphs; inside a subgraph block a member node is the bare line
\* `<node-id>;` with no attribute fragment.
C29_MembershipFrame ==
    /\ result = "Ok" => IndicesAt("node_line") = UpTo(Len(g.nodes))
    /\ \A k \in 1..Len(w) :
          /\ (w[k].site = "node_line" /\ w[k].ok) =>
                /\ w[k].text
                      = NodeText([g EXCEPT !.subgraphs = <<>>], w[k].i, options)
                /\ NoNodeLabels \notin Range(options) =>
                      Count(w[k].text, "[label=") = 1
          /\ (w[k].site = "subgraph_node" /\ w[k].ok) =>
                LET n == g.subgraphs[w[k].i].nodes[w[k].j]
                IN  /\ w[k].text = g.nodes[n].name \o <<";", "\n">>
                    /\ \A x \in 1..Len(w[k].text) :
                          w[k].text[x] \notin AttributeOpeners

C29_Witness ==
    /\ result = "Ok"
    /\ Len(g.nodes) = 2
    /\ Memberships(g, 1) = 2
    /\ Memberships(g, 2) = 0
    /\ \E k \in 1..Len(w) : w[k].site = "subgraph_node" /\ w[k].ok

\* The entries of opts that are among the options of keep, in their order.
Restrict(opts, keep) == SelectSeq(opts, LAMBDA o : o \in keep)

\* C30: subgraph decoration is controlled by the node options alone:
\* NoNodeLabels removes the label= line of every subgraph block and
\* NoNodeStyles its style= line, and NoEdgeLabels, NoEdgeStyles, NoEdgeColors,
\* NoNodeColors and NoArrows leave the block as it is without them; the edge
\* options leave every node line unchanged and the node options leave every
\* edge line unchanged.
C30_OptionFrame ==
    \A k \in 1..Len(w) :
       /\ (w[k].site = "subgraph_open" /\ w[k].ok) =>
             /\ w[k].text
                   = SubgraphText(g, w[k].i,
                                  Restrict(options, {NoNodeLabels, NoNodeStyles}))
             /\ Count(w[k].text, "label=")
                   = (IF NoNodeLabels \in Range(options) THEN 0 ELSE 1)
             /\ Count(w[k].text, "style=\"")
                   = (IF NoNodeStyles \in Range(options)
                         \/ g.subgraphs[w[k].i].style = "None" THEN 0 ELSE 1)
       /\ (w[k].site = "node_line" /\ w[k].ok) =>
             w[k].text = NodeText(g, w[k].i, Restrict(options, Range(NodeOptions)))
       /\ (w[k].site = "edge_line" /\ w[k].ok) =>
             w[k].text = EdgeText(g, w[k].i, Restrict(options, Range(EdgeOptions)))

C30_Witness ==
    /\ result = "Ok"
    /\ options = <<NoEdgeLabels, NoNodeStyles, NoNodeColors, NoArrows>>
    /\ \E k \in 1..Len(w) :
          /\ w[k].site = "subgraph_open" /\ w[k].ok
          /\ g.subgraphs[w[k].i].style = "Filled"
          /\ g.subgraphs[w[k].i].color # None
    /\ \E k \in 1..Len(w) : w[k].site = "node_line" /\ g.nodes[w[k].i].color # None
    /\ \E k \in 1..Len(w) : w[k].site = "edge_line" /\ g.edges[w[k].i].color # None

====
